---- MODULE Spec2Model ----
(***************************************************************************)
(* clap-bash (src/main.rs): one JSON document is split into a clap grammar *)
(* and a runtime configuration; the matched arguments are walked along the *)
(* invoked subcommand path, turned into environment variables, and the     *)
(* leaf's executable is exec'd with them.                                   *)
(*                                                                         *)
(* A Rust String is a sequence of one-character strings, so that           *)
(* to_env_var_name and join are computed character by character. JSON      *)
(* object keys are TLA+ strings; chars(key) gives a key's characters.      *)
(***************************************************************************)
EXTENDS Integers, Sequences, FiniteSets, TLC

VARIABLES
    pc,            \* position in main / in the operation under check
    input,         \* to_env_var_name: the &str argument
    output,        \* to_env_var_name: the returned String
    full_json,     \* Config::deserialize: the document, stripped in place
    runtime_json,  \* Config::deserialize: what extract_runtime returned
    app,           \* main: config.clap_config, the root Command
    command_config,\* main: config.command_config, the root CommandConfig
    matches,       \* main: what get_matches_from returned
    command,       \* run: &Command of the current level
    args,          \* run: &ArgMatches of the current level
    config,        \* run: &CommandConfig of the current level
    env,           \* run: the BTreeMap handed down the recursion
    levels,        \* history: the levels run has visited, root first
    launched       \* history: every ProcCommand::exec attempted

vars == <<pc, input, output, full_json, runtime_json, app, command_config,
          matches, command, args, config, env, levels, launched>>

nameVars == <<input, output>>
splitVars == <<full_json, runtime_json>>
mainVars == <<app, command_config, matches>>
walkVars == <<command, args, config, env, levels, launched>>

\* The value of a variable the operation under check does not use.
Idle == <<>>

----------------------------------------------------------------------------
(* Characters and strings *)

Lower == <<"a","b","c","d","e","f","g","h","i","j","k","l","m",
           "n","o","p","q","r","s","t","u","v","w","x","y","z">>
Upper == <<"A","B","C","D","E","F","G","H","I","J","K","L","M",
           "N","O","P","Q","R","S","T","U","V","W","X","Y","Z">>
Digit == {"0","1","2","3","4","5","6","7","8","9"}

Range(s) == {s[i] : i \in DOMAIN s}

is_ascii_alphabetic(c) == c \in Range(Lower) \cup Range(Upper)

is_ascii_alphanumeric(c) == is_ascii_alphabetic(c) \/ c \in Digit

to_ascii_uppercase(c) ==
    IF c \in Range(Lower)
    THEN Upper[CHOOSE i \in DOMAIN Lower : Lower[i] = c]
    ELSE c

\* A plausible slip: the leading-character rule is dropped.
SanitizeChar_NoLeadRule(i, c0) ==
    IF is_ascii_alphanumeric(c0) \/ c0 = "_" THEN c0 ELSE "_"

\* The first map of to_env_var_name: the character at Rust index i - 1.
SanitizeChar(i, c0) ==
    LET c == IF is_ascii_alphanumeric(c0) \/ c0 = "_" THEN c0 ELSE "_"
    IN  IF i = 1 /\ ~is_ascii_alphabetic(c) /\ c # "_" THEN "_" ELSE c

\* A plausible slip: the final uppercase map is dropped.
to_env_var_name_NoUpper(s) ==
    [i \in 1..Len(s) |-> SanitizeChar(i, s[i])]

to_env_var_name(s) ==
    [i \in 1..Len(s) |-> to_ascii_uppercase(SanitizeChar(i, s[i]))]

----------------------------------------------------------------------------
(* to_env_var_name on its own: every identifier up to MaxIdLen characters  *)
(* over IdAlphabet, and the identifier of the spec's Scenario C.           *)

MaxIdLen == 3

IdAlphabet == {"a", "Z", "3", "_", "-", "é"}

SeqsUpTo(S, n) == UNION {[1..k -> S] : k \in 0..n}

ScenarioC == <<"3", "-", "c", "o", "u", "n", "t">>

Identifiers == SeqsUpTo(IdAlphabet, MaxIdLen) \cup {ScenarioC}

InitName ==
    /\ pc = "start"
    /\ input \in Identifiers
    /\ output = Idle
    /\ full_json = Idle /\ runtime_json = Idle
    /\ app = Idle /\ command_config = Idle /\ matches = Idle
    /\ command = Idle /\ args = Idle /\ config = Idle
    /\ env = Idle /\ levels = Idle /\ launched = Idle

Transliterate ==
    /\ pc = "start"
    /\ output' = to_env_var_name(input)
    /\ pc' = "done"
    /\ UNCHANGED <<input, splitVars, mainVars, walkVars>>

NextName == Transliterate

SpecName == InitName /\ [][NextName]_vars

\* C4: the result has the length of s, is made of [A-Z0-9_] only, starts
\* with "_" unless s starts with an ASCII letter (then with that letter in
\* upper case), and every later character is kept in upper case when it is
\* an ASCII letter, digit or underscore and is "_" otherwise.
C4_Transliterated ==
    pc = "done" =>
        /\ Len(output) = Len(input)
        /\ \A i \in 1..Len(output) :
              /\ output[i] \in Range(Upper) \cup Digit \cup {"_"}
              /\ output[i] \notin Range(Lower)
        /\ Len(input) > 0 =>
              IF input[1] \in Range(Lower) \cup Range(Upper)
              THEN \E k \in 1..26 :
                      /\ input[1] \in {Lower[k], Upper[k]}
                      /\ output[1] = Upper[k]
              ELSE output[1] = "_"
        /\ \A i \in 2..Len(input) :
              IF input[i] \in Range(Lower)
              THEN \E k \in 1..26 : input[i] = Lower[k] /\ output[i] = Upper[k]
              ELSE IF input[i] \in Range(Upper) \cup Digit \cup {"_"}
                   THEN output[i] = input[i]
                   ELSE output[i] = "_"

\* C4's case: an identifier with a leading digit, a lower-case letter, and a
\* non-ASCII character has been transliterated.
C4_Witness ==
    /\ pc = "done"
    /\ input = <<"3", "a", "é">>
    /\ output = <<"_", "A", "_">>

\* C5 as the spec's Scenario C states it: "3-count" becomes "_3_COUNT".
C5_ScenarioC_AsStated ==
    (pc = "done" /\ input = ScenarioC) =>
        output = <<"_", "3", "_", "C", "O", "U", "N", "T">>

\* C5 amended: "3-count" becomes "__COUNT": the leading digit is replaced by
\* "_", not prefixed with it, and "-" becomes "_".
C5_ScenarioC_Amended ==
    (pc = "done" /\ input = ScenarioC) =>
        output = <<"_", "_", "C", "O", "U", "N", "T">>

C5_Witness ==
    /\ pc = "done"
    /\ input = ScenarioC
    /\ Len(output) = 7

----------------------------------------------------------------------------
(* serde_json::Value. An Object's map is a function from keys to Values.   *)

Null == [t |-> "Null"]
String(s) == [t |-> "String", s |-> s]
Array(a) == [t |-> "Array", a |-> a]
Object(m) == [t |-> "Object", m |-> m]

EmptyMap == [k \in {} |-> Null]

None == <<>>
Some(x) == <<x>>

\* object.iter_mut().next(): the first entry of the element's map. Every
\* element object of the documents below holds at most one key, so the
\* iteration order of serde_json's Map is never what decides.
FirstKey(m) == CHOOSE k \in DOMAIN m : TRUE

\* What a panicking call leaves behind: nothing is read from it.
Panicked == [panic |-> TRUE, ret |-> Null, v |-> Null]

\* iter().map(Op).collect::<Vec<_>>()
RECURSIVE MapSeq(_, _)
MapSeq(Op(_), s) ==
    IF s = <<>> THEN <<>> ELSE <<Op(Head(s))>> \o MapSeq(Op, Tail(s))

\* iter().filter(Keep).collect::<Vec<_>>()
RECURSIVE FilterSeq(_, _)
FilterSeq(Keep(_), s) ==
    IF s = <<>> THEN <<>>
    ELSE (IF Keep(Head(s)) THEN <<Head(s)>> ELSE <<>>) \o FilterSeq(Keep, Tail(s))

Ret(r) == r.ret
After(r) == r.v

RECURSIVE extract_runtime(_)

\* A plausible slip: the split of a child keeps only the child's own
\* `executable` and `env_var` and does not recurse below it.
extract_entry_Shallow(elem) ==
    IF elem.t # "Object" THEN Panicked
    ELSE IF DOMAIN elem.m = {} THEN Panicked
    ELSE LET name == FirstKey(elem.m)
             d == elem.m[name]
             moved == IF d.t = "Object"
                      THEN DOMAIN d.m \cap {"executable", "env_var"} ELSE {}
         IN  [panic |-> FALSE,
              ret |-> IF d.t = "Object"
                      THEN Object(name :> Object([k \in moved |-> d.m[k]]))
                      ELSE Object(name :> Null),
              v |-> IF d.t = "Object"
                    THEN Object(name :> Object([k \in DOMAIN d.m \ moved |-> d.m[k]]))
                    ELSE elem]

\* The closure mapped over the elements of `args` and of `subcommands`:
\* the element after the call (v), the runtime-side entry (ret).
extract_entry(elem) ==
    IF elem.t # "Object" THEN Panicked                \* _ => todo!()
    ELSE IF DOMAIN elem.m = {} THEN Panicked          \* .next().unwrap()
    ELSE LET name == FirstKey(elem.m)
             r == extract_runtime(elem.m[name])
         IN  [panic |-> r.panic,
              ret |-> Object(name :> r.ret),
              v |-> Object([elem.m EXCEPT ![name] = r.v])]

\* A plausible slip: an entry is emitted only for an element whose
\* definition carries runtime data.
extract_entries_OnlyWithData(arr) ==
    LET rs == MapSeq(extract_entry, arr)
        HasData(e) == e.m[FirstKey(e.m)] # Object(EmptyMap)
    IN  IF \E i \in DOMAIN rs : rs[i].panic THEN Panicked
        ELSE [panic |-> FALSE,
              ret |-> FilterSeq(HasData, MapSeq(Ret, rs)),
              v |-> MapSeq(After, rs)]

\* .iter_mut().map(closure).collect(): one runtime entry per element.
extract_entries(arr) ==
    LET rs == MapSeq(extract_entry, arr)
    IN  IF \E i \in DOMAIN rs : rs[i].panic THEN Panicked
        ELSE [panic |-> FALSE, ret |-> MapSeq(Ret, rs), v |-> MapSeq(After, rs)]

\* extract_runtime(&mut v): ret is the returned runtime Value, v is the
\* argument as the call leaves it, panic tells whether the call panicked.
extract_runtime(v) ==
    IF v.t = "Object" THEN
        LET map0 == v.m
            moved == DOMAIN map0 \cap {"executable", "env_var"}
            runtime0 == [k \in moved |-> map0[k]]
            map1 == [k \in DOMAIN map0 \ moved |-> map0[k]]
            hasArgs == "args" \in DOMAIN map1 /\ map1["args"].t = "Array"
            a == IF hasArgs THEN extract_entries(map1["args"].a)
                 ELSE [panic |-> FALSE, ret |-> <<>>, v |-> <<>>]
            hasSubs == "subcommands" \in DOMAIN map1
            subsOk == hasSubs /\ map1["subcommands"].t = "Array"
            s == IF subsOk THEN extract_entries(map1["subcommands"].a)
                 ELSE IF hasSubs THEN Panicked      \* _ => todo!()
                 ELSE [panic |-> FALSE, ret |-> <<>>, v |-> <<>>]
        IN  IF a.panic \/ s.panic THEN Panicked
            ELSE LET runtime1 == IF a.ret # <<>>
                                 THEN ("args" :> Array(a.ret)) @@ runtime0
                                 ELSE runtime0
                     runtime2 == IF hasSubs
                                 THEN ("subcommands" :> Array(s.ret)) @@ runtime1
                                 ELSE runtime1
                     map2 == [k \in DOMAIN map1 |->
                                 IF k = "args" /\ hasArgs THEN Array(a.v)
                                 ELSE IF k = "subcommands" THEN Array(s.v)
                                 ELSE map1[k]]
                 IN  [panic |-> FALSE, ret |-> Object(runtime2), v |-> Object(map2)]
    ELSE IF v.t = "Array" THEN
        LET rs == MapSeq(extract_runtime, v.a)
        IN  IF \E i \in DOMAIN rs : rs[i].panic THEN Panicked
            ELSE [panic |-> FALSE,
                  ret |-> Array(MapSeq(Ret, rs)),
                  v |-> Array(MapSeq(After, rs))]
    ELSE [panic |-> FALSE, ret |-> Null, v |-> v]

----------------------------------------------------------------------------
(* serde_json::from_value(runtime_json) into CommandConfig (derived         *)
(* Deserialize): ok tells whether it succeeded, val is the typed value.     *)
(* HashMap<String, T> is a function from keys to T; Option is None or       *)
(* Some(x). The documents below hold no array where a struct is expected.   *)

Ok(x) == [ok |-> TRUE, val |-> x]
Err == [ok |-> FALSE, val |-> Null]

default_value_delimiter == <<";">>
default_occurrence_delimiter == <<",">>

\* #[serde(untagged)] enum EnvVar: Simple(String), then Full(EnvVarConfig).
de_EnvVar(v) ==
    IF v.t = "String" THEN Ok([kind |-> "Simple", name |-> v.s])
    ELSE IF /\ v.t = "Object"
            /\ "name" \in DOMAIN v.m
            /\ \A k \in {"name", "value_delimiter", "occurrence_delimiter"}
                          \cap DOMAIN v.m : v.m[k].t = "String"
    THEN Ok([kind |-> "Full",
             cfg |-> [name |-> v.m["name"].s,
                      value_delimiter |->
                          IF "value_delimiter" \in DOMAIN v.m
                          THEN v.m["value_delimiter"].s
                          ELSE default_value_delimiter,
                      occurrence_delimiter |->
                          IF "occurrence_delimiter" \in DOMAIN v.m
                          THEN v.m["occurrence_delimiter"].s
                          ELSE default_occurrence_delimiter]])
    ELSE Err

\* struct ArgConfig { env_var: Option<EnvVar> }
de_ArgConfig(v) ==
    IF v.t # "Object" THEN Err
    ELSE IF "env_var" \notin DOMAIN v.m \/ v.m["env_var"] = Null
    THEN Ok([env_var |-> None])
    ELSE LET e == de_EnvVar(v.m["env_var"])
         IN  IF e.ok THEN Ok([env_var |-> Some(e.val)]) ELSE Err

\* Vec<HashMap<String, T>> from a Value, T read by de(_).
de_VecOfMaps(v, de(_)) ==
    IF v.t # "Array" THEN Err
    ELSE IF \E i \in DOMAIN v.a : v.a[i].t # "Object" THEN Err
    ELSE LET de_Map(e) == EmptyMap @@ [k \in DOMAIN e.m |-> de(e.m[k])]
             rs == MapSeq(de_Map, v.a)
             Vals(r) == EmptyMap @@ [k \in DOMAIN r |-> r[k].val]
         IN  IF \E i \in DOMAIN rs : \E k \in DOMAIN rs[i] : ~rs[i][k].ok
             THEN Err
             ELSE Ok(MapSeq(Vals, rs))

RECURSIVE de_CommandConfig(_)
\* struct CommandConfig { executable, #[serde(default)] args,
\*                        #[serde(default)] subcommands }
de_CommandConfig(v) ==
    IF v.t # "Object" THEN Err
    ELSE LET m == v.m
             exeOk == \/ "executable" \notin DOMAIN m
                      \/ m["executable"].t \in {"Null", "String"}
             a == IF "args" \in DOMAIN m
                  THEN de_VecOfMaps(m["args"], de_ArgConfig) ELSE Ok(<<>>)
             s == IF "subcommands" \in DOMAIN m
                  THEN de_VecOfMaps(m["subcommands"], de_CommandConfig)
                  ELSE Ok(<<>>)
         IN  IF ~exeOk \/ ~a.ok \/ ~s.ok THEN Err
             ELSE Ok([executable |->
                          IF "executable" \in DOMAIN m
                             /\ m["executable"].t = "String"
                          THEN Some(m["executable"].s) ELSE None,
                      args |-> a.val,
                      subcommands |-> s.val])

----------------------------------------------------------------------------
(* The grammar handed to clap: clap_serde::CommandWrap read from the        *)
(* residual document, then .into() a clap Command. Only what run reads of   *)
(* a Command is kept: the ids of its arguments, in order, and its           *)
(* subcommands by name. clap_serde reads `args` and `subcommands` from an   *)
(* array of {name: definition} objects or from one {name: definition, ..}   *)
(* map, and each definition from an object.                                 *)

\* The ids of an `args` value, in order; the map form of the documents
\* below holds one argument, so its iteration order is never what decides.
clap_arg_ids(v) ==
    IF v.t = "Array"
    THEN IF \A i \in DOMAIN v.a :
               /\ v.a[i].t = "Object"
               /\ \A k \in DOMAIN v.a[i].m : v.a[i].m[k].t = "Object"
         THEN Ok([i \in DOMAIN v.a |-> FirstKey(v.a[i].m)])
         ELSE Err
    ELSE IF v.t = "Object" /\ \A k \in DOMAIN v.m : v.m[k].t = "Object"
    THEN Ok(IF DOMAIN v.m = {} THEN <<>> ELSE <<FirstKey(v.m)>>)
    ELSE Err

RECURSIVE clap_command(_)
clap_command(v) ==
    IF v.t # "Object" THEN Err
    ELSE LET m == v.m
             a == IF "args" \in DOMAIN m THEN clap_arg_ids(m["args"])
                  ELSE Ok(<<>>)
             Sub(e) == [name |-> FirstKey(e.m),
                        r |-> clap_command(e.m[FirstKey(e.m)])]
             Built(x) == [name |-> x.name, cmd |-> x.r.val]
             shapeOk ==
                 \/ "subcommands" \notin DOMAIN m
                 \/ /\ m["subcommands"].t = "Array"
                    /\ \A i \in DOMAIN m["subcommands"].a :
                          /\ m["subcommands"].a[i].t = "Object"
                          /\ DOMAIN m["subcommands"].a[i].m # {}
             subs == IF "subcommands" \in DOMAIN m
                     THEN MapSeq(Sub, m["subcommands"].a) ELSE <<>>
         IN  IF ~a.ok \/ ~shapeOk THEN Err
             ELSE IF \E i \in DOMAIN subs : ~subs[i].r.ok THEN Err
             ELSE Ok([arguments |-> a.val, subcommands |-> MapSeq(Built, subs)])

----------------------------------------------------------------------------
(* The Match Walker's helpers. ArgMatches is [raw, subcommand]: raw maps    *)
(* the id of every matched argument to its occurrences, each a sequence of  *)
(* values; subcommand is None or Some([name, args]).                        *)

Found(x) == [found |-> TRUE, val |-> x]
Todo == [found |-> FALSE, val |-> Null]               \* todo!(): a panic

Min(S) == CHOOSE x \in S : \A y \in S : x <= y

\* The first map of the list that holds the name; todo!() when none does.
lookup_by_name(list, name) ==
    LET hits == {i \in DOMAIN list : name \in DOMAIN list[i]}
    IN  IF hits = {} THEN Todo ELSE Found(list[Min(hits)][name])

get_subcommand_config(cfg, name) == lookup_by_name(cfg.subcommands, name)

get_arg_config(cfg, name) == lookup_by_name(cfg.args, name)

\* A plausible slip: the first subcommand is taken, whatever its name.
get_subcommand_First(cmd, name) ==
    IF cmd.subcommands = <<>> THEN Todo ELSE Found(cmd.subcommands[1].cmd)

\* .find(|cmd| cmd.get_name() == name).expect("Missing subcommand")
get_subcommand(cmd, name) ==
    LET hits == {i \in DOMAIN cmd.subcommands : cmd.subcommands[i].name = name}
    IN  IF hits = {} THEN Todo ELSE Found(cmd.subcommands[Min(hits)].cmd)

\* args.get_raw_occurrences(id)
get_raw_occurrences(a, id) ==
    IF id \in DOMAIN a.raw THEN Some(a.raw[id]) ELSE None

\* EnvVar::into_config
into_config(e) ==
    IF e.kind = "Simple"
    THEN [name |-> e.name,
          value_delimiter |-> default_value_delimiter,
          occurrence_delimiter |-> default_occurrence_delimiter]
    ELSE e.cfg

\* [String]::join(sep)
RECURSIVE join(_, _)
join(strs, sep) ==
    IF strs = <<>> THEN <<>>
    ELSE IF Len(strs) = 1 THEN strs[1]
    ELSE strs[1] \o sep \o join(Tail(strs), sep)

\* A plausible slip: the two delimiters are swapped.
arg_value_Swapped(occurrences, cfg) ==
    LET one(occurrence) == join(occurrence, cfg.occurrence_delimiter)
    IN  join(MapSeq(one, occurrences), cfg.value_delimiter)

\* The value of one argument: lines 200-208.
arg_value(occurrences, cfg) ==
    LET one(occurrence) == join(occurrence, cfg.value_delimiter)
    IN  join(MapSeq(one, occurrences), cfg.occurrence_delimiter)

\* The characters of an argument id (arg_name is a &str).
chars(id) ==
    CASE id = "count" -> <<"c", "o", "u", "n", "t">>
      [] id = "dry-run" -> <<"d", "r", "y", "-", "r", "u", "n">>
      [] id = "tag" -> <<"t", "a", "g">>
      [] id = "3-count" -> ScenarioC

\* The body of create_env_vars' loop from argument i on; mapping is the
\* BTreeMap built so far. panic: get_arg_config hit todo!().
RECURSIVE env_vars_from(_, _, _, _, _)
env_vars_from(i, cmd, a, cfg, mapping) ==
    IF i > Len(cmd.arguments) THEN [panic |-> FALSE, mapping |-> mapping]
    ELSE LET arg_name == cmd.arguments[i]
             raw_arg_values == get_raw_occurrences(a, arg_name)
         IN  IF raw_arg_values = None                 \* else { continue }
             THEN env_vars_from(i + 1, cmd, a, cfg, mapping)
             ELSE LET arg_config == get_arg_config(cfg, arg_name)
                  IN  IF ~arg_config.found
                      THEN [panic |-> TRUE, mapping |-> mapping]
                      ELSE LET env_var_config ==
                                   into_config(
                                       IF arg_config.val.env_var = None
                                       THEN [kind |-> "Simple",
                                             name |-> to_env_var_name(chars(arg_name))]
                                       ELSE arg_config.val.env_var[1])
                               value == arg_value(raw_arg_values[1], env_var_config)
                           IN  env_vars_from(i + 1, cmd, a, cfg,
                                   (env_var_config.name :> value) @@ mapping)

create_env_vars(cmd, a, cfg) == env_vars_from(1, cmd, a, cfg, EmptyMap)

\* A plausible slip: entries already inherited are kept (parent wins).
extend_KeepOld(e, env_vars) == e @@ env_vars

\* BTreeMap::extend: the new entries replace same-named ones.
extend(e, env_vars) == env_vars @@ e

----------------------------------------------------------------------------
(* Config::deserialize as main calls it (serde_json::from_str, line 101).   *)

\* extract_runtime, then CommandWrap from the residual document (unwrap),
\* then CommandConfig from the runtime value (map_err, ?).
Deserialize ==
    /\ pc = "deserialize"
    /\ LET r == extract_runtime(full_json)
       IN  IF r.panic
           THEN /\ pc' = "panic"
                /\ UNCHANGED <<full_json, runtime_json, app, command_config>>
           ELSE /\ full_json' = r.v
                /\ runtime_json' = r.ret
                /\ LET clap_config == clap_command(r.v)
                       runtime == de_CommandConfig(r.ret)
                   IN  IF ~clap_config.ok
                       THEN pc' = "panic" /\ UNCHANGED <<app, command_config>>
                       ELSE IF ~runtime.ok
                       THEN pc' = "error" /\ UNCHANGED <<app, command_config>>
                       ELSE /\ pc' = "configured"
                            /\ app' = clap_config.val
                            /\ command_config' = runtime.val
    /\ UNCHANGED <<nameVars, matches, walkVars>>

----------------------------------------------------------------------------
(* The documents the splitter is checked on: command trees nested up to    *)
(* SplitDepth levels below the root, and the malformed shapes.             *)

SplitDepth == 2

Str_x == <<"X">>
Str_exe == <<"/", "b", "i", "n", "/", "x">>
Str_long == <<"l", "o", "n", "g">>

Plus == <<"+">>
Bar == <<"|">>

ArgPlain == Object([long |-> String(Str_long)])
ArgSimple == Object([long |-> String(Str_long), env_var |-> String(Str_x)])
ArgFull ==
    Object([env_var |-> Object([name |-> String(Str_x),
                                value_delimiter |-> String(Plus),
                                occurrence_delimiter |-> String(Bar)])])

Elem(name, def) == Object(name :> def)

SplitArgs ==
    { <<>>,
      <<Elem("count", ArgPlain)>>,
      <<Elem("count", ArgSimple)>>,
      <<Elem("count", ArgPlain), Elem("dry-run", ArgFull)>> }

\* A map with key k for each value of S, and the map without the key.
Optional(k, S) == {EmptyMap} \cup {k :> x : x \in S}

\* Values of a shape the splitter does not expect.
Malformed ==
    { String(Str_x),                                        \* a definition that is a string
      Object([args |-> String(Str_x)]),                     \* `args` a string
      Object([args |-> Object([count |-> ArgPlain]),
              executable |-> String(Str_exe)]),             \* `args` a map
      Object([subcommands |-> Object([build |-> Object(EmptyMap)])]),
      Object([args |-> Array(<<String(Str_x)>>)]),          \* an element a string
      Object([subcommands |-> Array(<<String(Str_x)>>)]),
      Object([subcommands |-> Array(<<Object(EmptyMap)>>)]) }

RECURSIVE SplitNodes(_)
SplitNodes(d) ==
    LET exe == Optional("executable", {String(Str_exe)})
        arg == Optional("args", {Array(a) : a \in SplitArgs \ {<<>>}})
        sub == IF d = 0 THEN {EmptyMap}
               ELSE Optional("subcommands",
                       {Array(<<Elem("build", c),
                                Elem("test", Object(EmptyMap))>>) :
                           c \in SplitNodes(d - 1)})
    IN  {Object(e @@ a @@ s) : e \in exe, a \in arg, s \in sub} \cup Malformed

Str_app == <<"a", "p", "p">>

\* The document: a command node with the root's `name`.
Root(node) ==
    IF node.t = "Object"
    THEN Object(("name" :> String(Str_app)) @@ node.m)
    ELSE node

SplitDocs == {Root(n) : n \in SplitNodes(SplitDepth)}

InitSplit ==
    /\ pc = "deserialize"
    /\ full_json \in SplitDocs
    /\ runtime_json = Idle
    /\ input = Idle /\ output = Idle
    /\ app = Idle /\ command_config = Idle /\ matches = Idle
    /\ command = Idle /\ args = Idle /\ config = Idle
    /\ env = Idle /\ levels = Idle /\ launched = Idle

NextSplit == Deserialize

SpecSplit == InitSplit /\ [][NextSplit]_vars

\* The split has returned: full_json is the residual (grammar) document
\* and runtime_json the runtime document.
SplitDone == runtime_json # Idle

\* The {name: definition} elements of a node's `subcommands` / `args`.
Elems(v, key) ==
    IF v.t = "Object" /\ key \in DOMAIN v.m /\ v.m[key].t = "Array"
    THEN v.m[key].a ELSE <<>>

\* The root-to-node subcommand-name paths of a document: the names of the
\* {name: definition} objects of each `subcommands` array.
RECURSIVE SubPaths(_)
SubPaths(v) ==
    LET subs == Elems(v, "subcommands")
    IN  {<<>>} \cup
        UNION { UNION { {<<k>> \o q : q \in SubPaths(subs[i].m[k])} :
                        k \in DOMAIN subs[i].m } :
                i \in {j \in DOMAIN subs : subs[j].t = "Object"} }

\* The subcommand-name paths of a clap Command.
RECURSIVE CommandPaths(_)
CommandPaths(cmd) ==
    {<<>>} \cup
    UNION { {<<cmd.subcommands[i].name>> \o q :
                q \in CommandPaths(cmd.subcommands[i].cmd)} :
            i \in DOMAIN cmd.subcommands }

\* get_subcommand_config applied along a path finds a child at every step.
RECURSIVE ConfigReaches(_, _)
ConfigReaches(cfg, path) ==
    \/ path = <<>>
    \/ /\ get_subcommand_config(cfg, Head(path)).found
       /\ ConfigReaches(get_subcommand_config(cfg, Head(path)).val, Tail(path))

\* C1: after the split of a document whose `subcommands` are arrays of
\* single-key objects, the runtime document and the residual grammar
\* document have the same set of subcommand-name paths, and once both trees
\* are built get_subcommand_config finds a child along every path of the
\* grammar, also below subcommands that carry no runtime data.
C1_SameSubcommandPaths ==
    /\ SplitDone => SubPaths(runtime_json) = SubPaths(full_json)
    /\ pc = "configured" =>
          \A path \in CommandPaths(app) : ConfigReaches(command_config, path)

\* C1's case: a two-level path whose nodes carry no runtime data at all has
\* been split, and the runtime tree holds it as empty nodes.
C1_Witness ==
    /\ pc = "configured"
    /\ <<"build", "test">> \in SubPaths(full_json)
    /\ <<"build", "test">> \in SubPaths(runtime_json)
    /\ runtime_json.m["subcommands"].a[1].m["build"]
           = Object([subcommands |->
                        Array(<<Elem("build", Object(EmptyMap)),
                                Elem("test", Object(EmptyMap))>>)])

\* The shape the splitter expects: a definition is an object, `args` and
\* `subcommands` are arrays, and their elements are objects.
RECURSIVE ExpectedShape(_)
ExpectedShape(v) ==
    /\ v.t = "Object"
    /\ \A key \in {"args", "subcommands"} \cap DOMAIN v.m :
          /\ v.m[key].t = "Array"
          /\ \A i \in DOMAIN v.m[key].a :
                /\ v.m[key].a[i].t = "Object"
                /\ \A k \in DOMAIN v.m[key].a[i].m :
                      ExpectedShape(v.m[key].a[i].m[k])

\* C8: a document with a value of another shape where an object or array is
\* expected ends Config::deserialize in a fatal error.
C8_MalformedIsFatal ==
    [][(pc = "deserialize" /\ ~ExpectedShape(full_json))
          => pc' \in {"panic", "error"}]_vars

\* The (grammar node, runtime node) pairs at the same subcommand position.
RECURSIVE NodePairs(_, _)
NodePairs(g, r) ==
    {<<g, r>>} \cup
    UNION { NodePairs(Elems(g, "subcommands")[i].m[FirstKey(Elems(g, "subcommands")[i].m)],
                      Elems(r, "subcommands")[i].m[FirstKey(Elems(r, "subcommands")[i].m)]) :
            i \in DOMAIN Elems(g, "subcommands") \cap DOMAIN Elems(r, "subcommands") }

\* The names of a node's `args` elements, in order.
ArgNamesOf(v) ==
    [i \in DOMAIN Elems(v, "args") |-> FirstKey(Elems(v, "args")[i].m)]

----------------------------------------------------------------------------
(* The whole program: main deserializes the document, clap matches the     *)
(* trailing arguments, and run walks the matched subcommand path.          *)

WalkDepth == 2

Str_count == <<"C", "O", "U", "N", "T">>
Str_self == <<"s", "e", "l", "f">>
Str_current_exe == <<"/", "c", "b">>
Str_test_exe == <<"/", "b", "i", "n", "/", "t">>

\* The executable of a node d levels above the deepest one.
ExePath(d) == Str_exe \o <<CHOOSE c \in Digit : c = ToString(d)>>

\* An argument whose variable is the one derived for `count`.
ArgCount ==
    Object([env_var |-> Object([name |-> String(Str_count),
                                value_delimiter |-> String(Plus),
                                occurrence_delimiter |-> String(Bar)])])

WalkArgs ==
    { Array(<<Elem("count", ArgPlain)>>),
      Array(<<Elem("dry-run", ArgCount)>>) }

\* The sibling of every `build`: a leaf with a variable of its own.
TestLeaf ==
    Object([executable |-> String(Str_test_exe),
            args |-> Array(<<Elem("tag", ArgSimple)>>)])

RECURSIVE WalkNodes(_)
WalkNodes(d) ==
    LET exe == Optional("executable", {String(ExePath(d))})
        arg == {"args" :> a : a \in WalkArgs}
        sub == IF d = 0 THEN {EmptyMap}
               ELSE Optional("subcommands",
                       {Array(<<Elem("build", c), Elem("test", TestLeaf)>>) :
                           c \in WalkNodes(d - 1)})
    IN  {Object(e @@ a @@ s) : e \in exe, a \in arg, s \in sub}
        \cup {Object(("executable" :> String(ExePath(d)))
                     @@ ("args" :> Object([count |-> ArgPlain])) @@ s) :
                 s \in sub}                                  \* `args` a map

WalkDocs == {Root(n) : n \in WalkNodes(WalkDepth)}

\* The occurrences clap reports for an argument given on the command line:
\* two occurrences, the second with two values.
WalkOccurrences == << <<<<"2">>>>, <<<<"3">>, <<"4">>>> >>

\* Every ArgMatches clap can return for a Command: any subset of its
\* arguments matched, and no subcommand or one of its subcommands invoked.
RECURSIVE ArgMatchesOf(_)
ArgMatchesOf(cmd) ==
    LET ids == Range(cmd.arguments)
        raws == {[id \in S |-> WalkOccurrences] : S \in SUBSET ids}
        subs == {None} \cup
                UNION { {Some([name |-> cmd.subcommands[i].name, args |-> m]) :
                            m \in ArgMatchesOf(cmd.subcommands[i].cmd)} :
                        i \in DOMAIN cmd.subcommands }
    IN  {[raw |-> r, subcommand |-> sc] : r \in raws, sc \in subs}

Init ==
    /\ pc = "deserialize"
    /\ full_json \in WalkDocs
    /\ runtime_json = Idle
    /\ input = Idle /\ output = Idle
    /\ app = Idle /\ command_config = Idle /\ matches = Idle
    /\ command = Idle /\ args = Idle /\ config = Idle
    /\ env = Idle /\ levels = <<>> /\ launched = <<>>

\* main, lines 106-121: clap matches the trailing arguments, the
\* environment starts empty or with `self`, and run is called on the root.
GetMatches ==
    /\ pc = "configured"
    /\ \E m \in ArgMatchesOf(app), add_self_to_env \in BOOLEAN :
          /\ matches' = m
          /\ command' = app
          /\ args' = m
          /\ config' = command_config
          /\ env' = IF add_self_to_env
                    THEN Str_self :> Str_current_exe ELSE EmptyMap
    /\ pc' = "run"
    /\ UNCHANGED <<nameVars, splitVars, app, command_config, levels, launched>>

\* get_matches_from on arguments that do not satisfy the grammar: clap
\* prints its usage error and exits.
UsageError ==
    /\ pc = "configured"
    /\ pc' = "usage"
    /\ UNCHANGED <<nameVars, splitVars, mainVars, walkVars>>

\* A plausible slip: a missing executable falls back to an empty path.
leaf_exec_OrDefault(cfg, e) ==
    Some([executable |-> IF cfg.executable # None THEN cfg.executable[1]
                         ELSE <<>>,
          envs |-> e])

\* The else branch of run (lines 139-144): the ProcCommand to exec, or None
\* for bail!("Missing executable").
leaf_exec(cfg, e) ==
    IF cfg.executable # None
    THEN Some([executable |-> cfg.executable[1], envs |-> e])
    ELSE None

\* One call of run: the level's variables are created and merged, then run
\* recurses into the invoked subcommand or, with none invoked, execs the
\* level's executable. exec returns only when it failed.
Run ==
    /\ pc = "run"
    /\ LET env_vars == create_env_vars(command, args, config)
       IN  IF env_vars.panic
           THEN /\ pc' = "panic"
                /\ UNCHANGED <<command, args, config, env, levels, launched>>
           ELSE LET env1 == extend(env, env_vars.mapping)
                    visited == [inherited |-> env,
                                env_vars |-> env_vars.mapping,
                                executable |-> config.executable,
                                subcommand |->
                                    IF args.subcommand = None THEN None
                                    ELSE Some(args.subcommand[1].name)]
                IN  /\ levels' = Append(levels, visited)
                    /\ IF args.subcommand # None
                       THEN LET name == args.subcommand[1].name
                                subargs == args.subcommand[1].args
                                subconfig == get_subcommand_config(config, name)
                                subcommand == get_subcommand(command, name)
                            IN  IF ~subconfig.found \/ ~subcommand.found
                                THEN /\ pc' = "panic"
                                     /\ UNCHANGED <<command, args, config, env,
                                                    launched>>
                                ELSE /\ command' = subcommand.val
                                     /\ args' = subargs
                                     /\ config' = subconfig.val
                                     /\ env' = env1
                                     /\ pc' = "run"
                                     /\ UNCHANGED launched
                       ELSE IF leaf_exec(config, env1) # None
                       THEN /\ launched' = Append(launched,
                                                  leaf_exec(config, env1)[1])
                            /\ env' = env1
                            /\ pc' \in {"replaced", "launch_failed"}
                            /\ UNCHANGED <<command, args, config>>
                       ELSE /\ pc' = "missing_executable"
                            /\ env' = env1
                            /\ UNCHANGED <<command, args, config, launched>>
    /\ UNCHANGED <<nameVars, splitVars, mainVars>>

Next == Deserialize \/ GetMatches \/ UsageError \/ Run

Spec == Init /\ [][Next]_vars

----------------------------------------------------------------------------
(* create_env_vars on its own: one declared argument, every runtime         *)
(* configuration form, and every match of up to MaxOccs occurrences of up   *)
(* to MaxVals values each.                                                  *)

MaxOccs == 2
MaxVals == 2

\* Raw values; one holds both default delimiters.
EncValues == {<<"1">>, <<"b", ";", ",">>}

ScenarioA == << <<<<"1">>>>, <<<<"2">>>> >>
ScenarioB == << <<<<"a">>, <<"b">>>> >>

EncOccurrences ==
    {o \in SeqsUpTo(SeqsUpTo(EncValues, MaxVals), MaxOccs) : o # <<>>}
    \cup {ScenarioA, ScenarioB}

\* An `env_var` object that names the variable and leaves the delimiters out.
ArgNameOnly == Object([env_var |-> Object([name |-> String(Str_x)])])

\* The ArgConfig forms, as the document gives them.
EncArgDefs == {ArgPlain, ArgSimple, ArgFull, ArgNameOnly}

InitEnc ==
    /\ pc = "start"
    /\ command = [arguments |-> <<"dry-run">>, subcommands |-> <<>>]
    /\ \E def \in EncArgDefs :
          config = [executable |-> None,
                    args |-> <<"dry-run" :> de_ArgConfig(def).val>>,
                    subcommands |-> <<>>]
    /\ \E raw \in {EmptyMap} \cup {"dry-run" :> o : o \in EncOccurrences} :
          args = [raw |-> raw, subcommand |-> None]
    /\ output = Idle
    /\ input = Idle
    /\ full_json = Idle /\ runtime_json = Idle
    /\ app = Idle /\ command_config = Idle /\ matches = Idle
    /\ env = Idle /\ levels = Idle /\ launched = Idle

Encode ==
    /\ pc = "start"
    /\ output' = create_env_vars(command, args, config)
    /\ pc' = "done"
    /\ UNCHANGED <<input, splitVars, mainVars, command, args, config, env,
                   levels, launched>>

NextEnc == Encode

SpecEnc == InitEnc /\ [][NextEnc]_vars

\* The reference: the strings of a list, in order, with sep between them.
RefJoined(strs, sep) ==
    LET upto[k \in 0..Len(strs)] ==
            IF k = 0 THEN <<>>
            ELSE IF k = 1 THEN strs[1]
            ELSE upto[k - 1] \o sep \o strs[k]
    IN  upto[Len(strs)]

\* The ArgRuntimeConfig in force for the argument of the encoder's input.
EncEnvVar == config.args[1]["dry-run"].env_var
EncName ==
    IF EncEnvVar = None THEN <<"D", "R", "Y", "_", "R", "U", "N">>
    ELSE IF EncEnvVar[1].kind = "Simple" THEN EncEnvVar[1].name
    ELSE EncEnvVar[1].cfg.name
EncValueDelimiter ==
    IF EncEnvVar # None /\ EncEnvVar[1].kind = "Full"
    THEN EncEnvVar[1].cfg.value_delimiter ELSE <<";">>
EncOccurrenceDelimiter ==
    IF EncEnvVar # None /\ EncEnvVar[1].kind = "Full"
    THEN EncEnvVar[1].cfg.occurrence_delimiter ELSE <<",">>

\* C3: with zero occurrences the encoder yields no entry; otherwise exactly
\* one entry, under the configured or derived name, whose value is the
\* occurrences in order, each its values joined by the value-delimiter,
\* joined by the occurrence-delimiter, with no escaping. One occurrence of
\* one value yields that value; ["1"],["2"] with the default delimiters
\* yield "1,2"; ["a","b"] with value-delimiter "+" yields "a+b".
C3_Encoded ==
    pc = "done" =>
        /\ ~output.panic
        /\ IF "dry-run" \notin DOMAIN args.raw
           THEN output.mapping = EmptyMap
           ELSE LET occs == args.raw["dry-run"]
                    perOcc == [i \in 1..Len(occs) |->
                                  RefJoined(occs[i], EncValueDelimiter)]
                IN  /\ DOMAIN output.mapping = {EncName}
                    /\ output.mapping[EncName]
                           = RefJoined(perOcc, EncOccurrenceDelimiter)
                    /\ (Len(occs) = 1 /\ Len(occs[1]) = 1)
                           => output.mapping[EncName] = occs[1][1]
                    /\ (occs = ScenarioA /\ EncOccurrenceDelimiter = <<",">>)
                           => output.mapping[EncName] = <<"1", ",", "2">>
                    /\ (occs = ScenarioB /\ EncValueDelimiter = <<"+">>)
                           => output.mapping[EncName] = <<"a", "+", "b">>

\* C3's case: two occurrences, the second of two values, one value holding
\* the delimiters, encoded with explicit delimiters.
C3_Witness ==
    /\ pc = "done"
    /\ EncEnvVar # None /\ EncValueDelimiter = <<"+">>
    /\ args.raw = ("dry-run" :> << <<<<"1">>>>, <<<<"b", ";", ",">>, <<"1">>>> >>)
    /\ output.mapping = (<<"X">> :> <<"1", "|", "b", ";", ",", "+", "1">>)

Terminal ==
    {"panic", "error", "usage", "missing_executable", "replaced",
     "launch_failed"}

\* The subcommand names clap reports, from the root down.
RECURSIVE MatchedPath(_)
MatchedPath(m) ==
    IF m.subcommand = None THEN <<>>
    ELSE <<m.subcommand[1].name>> \o MatchedPath(m.subcommand[1].args)

\* The Command, ArgMatches and CommandConfig at the end of a path, read off
\* the trees by name.
RECURSIVE CommandAt(_, _)
CommandAt(cmd, path) ==
    IF path = <<>> THEN cmd
    ELSE CommandAt((CHOOSE s \in Range(cmd.subcommands) : s.name = Head(path)).cmd,
                   Tail(path))

RECURSIVE ArgsAt(_, _)
ArgsAt(m, path) ==
    IF path = <<>> THEN m ELSE ArgsAt(m.subcommand[1].args, Tail(path))

RECURSIVE ConfigAt(_, _)
ConfigAt(cfg, path) ==
    IF path = <<>> THEN cfg
    ELSE ConfigAt((CHOOSE m \in Range(cfg.subcommands) : Head(path) \in DOMAIN m)
                      [Head(path)],
                  Tail(path))

\* The entries level i of the matched path produces (the root is level 1).
LevelEntries(i) ==
    LET prefix == SubSeq(MatchedPath(matches), 1, i - 1)
    IN  create_env_vars(CommandAt(app, prefix), ArgsAt(matches, prefix),
                        ConfigAt(command_config, prefix)).mapping

Max(S) == CHOOSE x \in S : \A y \in S : x >= y

\* C2: the environment handed to the launch is the root-first layering of
\* the per-level entries along the matched path over main's initial
\* environment: a name's value is the one of the deepest level of the path
\* that produces it, an ancestor's entry no deeper level produces survives
\* unchanged, and nothing else (no entry of a subcommand off the path) is
\* in it.
C2_LayeredEnvironment ==
    launched # <<>> =>
        LET n == Len(MatchedPath(matches)) + 1
            envs == launched[1].envs
            env0 == levels[1].inherited
            producers(k) == {i \in 1..n : k \in DOMAIN LevelEntries(i)}
        IN  /\ DOMAIN envs =
                  DOMAIN env0 \cup UNION {DOMAIN LevelEntries(i) : i \in 1..n}
            /\ \A k \in DOMAIN envs :
                  envs[k] = IF producers(k) = {} THEN env0[k]
                            ELSE LevelEntries(Max(producers(k)))[k]

\* C2's case: the root and the grandchild both produce COUNT, the child in
\* between produces nothing, `self` is inherited, and the sibling `test`
\* of the path declares X: the launch gets the grandchild's COUNT.
C2_Witness ==
    /\ launched # <<>>
    /\ MatchedPath(matches) = <<"build", "build">>
    /\ levels[1].inherited = (Str_self :> Str_current_exe)
    /\ levels[1].env_vars = (Str_count :> <<"2", ",", "3", ";", "4">>)
    /\ levels[2].env_vars = EmptyMap
    /\ levels[3].env_vars = (Str_count :> <<"2", "|", "3", "+", "4">>)
    /\ launched[1].envs = (Str_count :> <<"2", "|", "3", "+", "4">>)
                          @@ (Str_self :> Str_current_exe)

\* C6: once run has encoded a level with no invoked subcommand whose
\* RuntimeNode has no executable, the run has ended with "Missing
\* executable" and nothing has been or is launched, whatever the depth and
\* whatever executables the ancestors configure.
C6_MissingExecutableIsFatal ==
    /\ (levels # <<>> /\ levels[Len(levels)].subcommand = None
                      /\ levels[Len(levels)].executable = None)
          => (pc = "missing_executable" /\ launched = <<>>)
    /\ pc = "missing_executable" => launched = <<>>

\* C6's case: a leaf two levels down has no executable while both of its
\* ancestors have one, and variables were accumulated on the way.
C6_Witness ==
    /\ pc = "missing_executable"
    /\ Len(levels) = 3
    /\ levels[1].executable # None /\ levels[2].executable # None
    /\ levels[3].executable = None
    /\ DOMAIN env # {}

\* A Command and a CommandConfig differ in their argument names or their
\* subcommand names somewhere in the tree.
RECURSIVE Mismatch(_, _)
Mismatch(cmd, cfg) ==
    LET cmdSubs == {cmd.subcommands[i].name : i \in DOMAIN cmd.subcommands}
        cfgSubs == UNION {DOMAIN cfg.subcommands[i] : i \in DOMAIN cfg.subcommands}
    IN  \/ Range(cmd.arguments) # UNION {DOMAIN cfg.args[i] : i \in DOMAIN cfg.args}
        \/ cmdSubs # cfgSubs
        \/ \E name \in cmdSubs \cap cfgSubs :
              Mismatch(get_subcommand(cmd, name).val,
                       get_subcommand_config(cfg, name).val)

\* C7: when the Grammar Tree and the Runtime Tree differ in an argument or
\* a subcommand, the run ends in a fatal error and nothing is launched,
\* whatever the invocation.
C7_MismatchIsFatal ==
    (app # Idle /\ Mismatch(app, command_config)) =>
        (launched = <<>> /\ pc \notin {"replaced", "launch_failed"})

\* What C10 says of every state of a run.
C10_Safety ==
    matches # Idle =>
        LET path == MatchedPath(matches)
        IN  /\ Len(levels) <= Len(path) + 1
            /\ \A i \in DOMAIN levels :
                  /\ levels[i].subcommand =
                        (IF i <= Len(path) THEN Some(path[i]) ELSE None)
                  /\ levels[i].env_vars = LevelEntries(i)
                  /\ levels[i].executable =
                        ConfigAt(command_config, SubSeq(path, 1, i - 1)).executable
            /\ pc = "run" =>
                  /\ Len(levels) <= Len(path)
                  /\ command = CommandAt(app, SubSeq(path, 1, Len(levels)))
                  /\ config = ConfigAt(command_config, SubSeq(path, 1, Len(levels)))
                  /\ args = ArgsAt(matches, SubSeq(path, 1, Len(levels)))
            /\ pc \in {"replaced", "launch_failed", "missing_executable"}
                  => Len(levels) = Len(path) + 1
            /\ Len(launched) <= 1
            /\ launched # <<>> =>
                  /\ pc \in {"replaced", "launch_failed"}
                  /\ Len(levels) = Len(path) + 1
                  /\ Some(launched[1].executable)
                        = ConfigAt(command_config, path).executable

\* C10: run visits the levels of the matched path in root-to-leaf order,
\* each encoded before the descent; at most one launch is attempted, only
\* at the level with no invoked subcommand, after every level of the path
\* has contributed, with that level's executable; and the run terminates:
\* every call of run either ends the run or descends one level, and the
\* number of levels is bounded by the length of the matched path.
C10_WalkOrder ==
    /\ [](C10_Safety)
    /\ [][pc = "run" =>
             \/ pc' \in Terminal
             \/ pc' = "run" /\ Len(levels') = Len(levels) + 1]_vars

\* C10's case: a launch two levels down, past two levels that configure an
\* executable of their own.
C10_Witness ==
    /\ pc = "replaced"
    /\ Len(levels) = 3
    /\ levels[1].executable = Some(ExePath(2))
    /\ levels[2].executable = Some(ExePath(1))
    /\ launched = <<[executable |-> ExePath(0), envs |-> env]>>

====
